---------------------------- MODULE Spec2Model ----------------------------
(***************************************************************************)
(* Model of st2common/util/crypto.py: the AESKey value object, the        *)
(* keyczar-compatible symmetric encrypt / decrypt envelope codec, the     *)
(* PKCS5 padding codec and the web-safe Base64 codec.                     *)
(*                                                                         *)
(* Bytes are integers 0..255 and byte strings are sequences of them.      *)
(* Hex text is a sequence of one-character strings.  Base64 text is a     *)
(* sequence of alphabet indices 0..63, with 64 for "=", 65 for " " and    *)
(* 66 for a line break.                                                    *)
(***************************************************************************)
EXTENDS Integers, Sequences, FiniteSets, TLC

\* ---------------------------------------------------------------- constants

KEYCZAR_HEADER_SIZE == 5

KEYCZAR_AES_BLOCK_SIZE == 16

KEYCZAR_HLEN == 20

\* ------------------------------------------------------------------- bounds

\* os.urandom draws: how many different key materials / IVs are tried.
NumKeySeeds == 1

NumIVSeeds == 1

\* how many different contents are tried for each plaintext length
NumPlainSeeds == 1

\* longest byte string handed directly to pkcs5_unpad
MaxDataLen == 3

\* plaintext lengths the encrypt / pad operations are driven with
PlainLens == {0, 1, 15, 16, 17, 31, 32, 100}

\* longest plaintext whose envelope is tampered with bit by bit
MaxTamperPlain == 17

\* byte values the directly unpadded strings are built from
SampleBytes == {0, 1, 2, 3, 4, 255}

\* key sizes (bits) generate() is called with
GenSizes == {0, 64, 100, 128, 130, 192, 256}

\* ------------------------------------------------------------ Python slices

Min(a, b) == IF a < b THEN a ELSE b

Max(a, b) == IF a > b THEN a ELSE b

\* Python's normalisation of a slice index i for a sequence of length n
NormIndex(i, n) == IF i < 0 THEN Max(i + n, 0) ELSE Min(i, n)

\* s[a:b] with 0-based Python indices, either of which may be negative
PySlice(s, a, b) ==
    LET lo == NormIndex(a, Len(s))
        hi == NormIndex(b, Len(s))
    IN  IF hi <= lo THEN <<>> ELSE SubSeq(s, lo + 1, hi)

\* s[a:]
PySliceFrom(s, a) == PySlice(s, a, Len(s))

\* s[:b]
PySliceTo(s, b) == PySlice(s, 0, b)

\* n * chr(c)
Repeat(c, n) == [i \in 1..n |-> c]

\* ------------------------------------------------------------ bit operations

RECURSIVE Xor(_, _)
Xor(a, b) ==
    IF a = 0 THEN b
    ELSE IF b = 0 THEN a
    ELSE (((a % 2) + (b % 2)) % 2) + 2 * Xor(a \div 2, b \div 2)

XorBytes(x, y) == [i \in 1..Len(x) |-> Xor(x[i], y[i])]

Pow2(b) == CASE b = 0 -> 1 [] b = 1 -> 2 [] b = 2 -> 4 [] b = 3 -> 8
             [] b = 4 -> 16 [] b = 5 -> 32 [] b = 6 -> 64 [] b = 7 -> 128

\* ------------------------------------------------------------ padding codec

pkcs5_pad_shortBug(data) ==
    LET pad == (KEYCZAR_AES_BLOCK_SIZE - (Len(data) % KEYCZAR_AES_BLOCK_SIZE))
                   % KEYCZAR_AES_BLOCK_SIZE
    IN  data \o Repeat(pad, pad)

pkcs5_pad(data) ==
    LET pad == KEYCZAR_AES_BLOCK_SIZE - (Len(data) % KEYCZAR_AES_BLOCK_SIZE)
    IN  data \o Repeat(pad, pad)

\* outcome of a call: a returned value or a raised exception
Return(v) == [status |-> "return", exc |-> "", val |-> v]

Raise(e) == [status |-> "raise", exc |-> e, val |-> <<>>]

NoResult == [status |-> "none", exc |-> "", val |-> <<>>]

pkcs5_unpad_keepOne(data) ==
    IF Len(data) = 0 THEN Raise("IndexError")
    ELSE LET pad == data[Len(data)]
         IN  Return(PySliceTo(data, 1 - pad))

pkcs5_unpad(data) ==
    IF Len(data) = 0 THEN Raise("IndexError")
    ELSE LET pad == data[Len(data)]
         IN  Return(PySliceTo(data, 0 - pad))

\* ---------------------------------------------------------------- hex codec

HexLower == <<"0", "1", "2", "3", "4", "5", "6", "7",
              "8", "9", "a", "b", "c", "d", "e", "f">>

HexUpper == <<"0", "1", "2", "3", "4", "5", "6", "7",
              "8", "9", "A", "B", "C", "D", "E", "F">>

\* binascii.hexlify: two lower-case digits per byte
hexlify(bytes) ==
    [i \in 1..(2 * Len(bytes)) |->
        LET b == bytes[(i + 1) \div 2]
        IN  IF (i % 2) = 1 THEN HexLower[(b \div 16) + 1] ELSE HexLower[(b % 16) + 1]]

HexChars == {HexLower[d] : d \in 1..16} \cup {HexUpper[d] : d \in 1..16}

\* value of a hex digit of either case
HexValue == [c \in HexChars |->
                (CHOOSE d \in 1..16 : HexLower[d] = c \/ HexUpper[d] = c) - 1]

IsHexDigit(c) == c \in HexChars

HexVal(c) == HexValue[c]

\* str.upper() on hex text
upper(text) ==
    [i \in 1..Len(text) |->
        IF IsHexDigit(text[i]) THEN HexUpper[HexVal(text[i]) + 1] ELSE text[i]]

\* binascii.unhexlify: TypeError on odd length or on a non-hex digit
unhexlify(text) ==
    IF (Len(text) % 2) = 1 THEN Raise("TypeError")
    ELSE IF \E i \in 1..Len(text) : ~IsHexDigit(text[i]) THEN Raise("TypeError")
    ELSE Return([i \in 1..(Len(text) \div 2) |->
                    16 * HexVal(text[2 * i - 1]) + HexVal(text[2 * i])])

\* ------------------------------------------------------------- Base64 codec

B64Pad == 64

B64Space == 65

B64Newline == 66

\* value of the (up to three) bytes of group g (0-based), missing bytes as 0
B64GroupValue(s, g) ==
    LET byte(j) == IF 3 * g + j <= Len(s) THEN s[3 * g + j] ELSE 0
    IN  byte(1) * 65536 + byte(2) * 256 + byte(3)

\* base64.urlsafe_b64encode: four characters per group, "=" for missing bytes
urlsafe_b64encode(s) ==
    LET groups == (Len(s) + 2) \div 3
    IN  [i \in 1..(4 * groups) |->
            LET g == (i - 1) \div 4
                j == (i - 1) % 4
                v == B64GroupValue(s, g)
                have == Min(3, Len(s) - 3 * g)
            IN  IF j > have THEN B64Pad
                ELSE CASE j = 0 -> v \div 262144
                       [] j = 1 -> (v \div 4096) % 64
                       [] j = 2 -> (v \div 64) % 64
                       [] j = 3 -> v % 64]

\* Base64WSEncode: the encoding with the "=" characters removed
Base64WSEncode(s) == SelectSeq(urlsafe_b64encode(s), LAMBDA c : c # B64Pad)

\* base64.urlsafe_b64decode of text whose length is a multiple of four and
\* whose "=" characters, if any, end the last group
urlsafe_b64decode(t) ==
    LET groups == Len(t) \div 4
        pads == Cardinality({i \in 1..Len(t) : t[i] = B64Pad})
        val(c) == IF c = B64Pad THEN 0 ELSE c
        v(g) == val(t[4 * g + 1]) * 262144 + val(t[4 * g + 2]) * 4096
                    + val(t[4 * g + 3]) * 64 + val(t[4 * g + 4])
    IN  [k \in 1..(3 * groups - pads) |->
            LET g == (k - 1) \div 3
                j == (k - 1) % 3
            IN  CASE j = 0 -> v(g) \div 65536
                  [] j = 1 -> (v(g) \div 256) % 256
                  [] j = 2 -> v(g) % 256]

\* Base64WSDecode: whitespace removed, the "=" padding put back, then decoded
Base64WSDecode(s) ==
    LET t == SelectSeq(s, LAMBDA c : c # B64Space /\ c # B64Newline)
        d == Len(t) % 4
    IN  IF d = 1 THEN Raise("ValueError")
        ELSE IF d = 2 THEN Return(urlsafe_b64decode(t \o <<B64Pad, B64Pad>>))
        ELSE IF d = 3 THEN Return(urlsafe_b64decode(t \o <<B64Pad>>))
        ELSE Return(urlsafe_b64decode(t))

\* -------------------------------------------------- cryptography primitives
\* The primitives of the cryptography library are modelled by what the code
\* relies on: HMAC is a keyed digest of KEYCZAR_HLEN bytes that changes
\* whenever one byte of the message changes, AES is a keyed permutation of
\* 16-byte blocks, chained in CBC mode.

RECURSIVE ColumnSum(_, _)
ColumnSum(msg, i) ==
    IF i > Len(msg) THEN 0
    ELSE msg[i] * (2 * ((i - 1) \div KEYCZAR_HLEN) + 1)
            + ColumnSum(msg, i + KEYCZAR_HLEN)

KeyByte(k, i) == IF Len(k) = 0 THEN 0 ELSE k[((i - 1) % Len(k)) + 1]

\* hmac.HMAC(key, SHA1).update(msg).finalize()
HMAC_SHA1(k, msg) ==
    [j \in 1..KEYCZAR_HLEN |->
        (3 * KeyByte(k, j) + 7 * Len(msg) + ColumnSum(msg, j)) % 256]

\* algorithms.AES(key) accepts keys of 128, 192 and 256 bits
AESKeyValid(k) == (Len(k) * 8) \in {128, 192, 256}

BlockEncrypt(k, blk) ==
    [i \in 1..KEYCZAR_AES_BLOCK_SIZE |-> (blk[i] + KeyByte(k, i) + i) % 256]

BlockDecrypt(k, blk) ==
    [i \in 1..KEYCZAR_AES_BLOCK_SIZE |-> (blk[i] + 512 - KeyByte(k, i) - i) % 256]

Block(data, j) ==
    SubSeq(data, (j - 1) * KEYCZAR_AES_BLOCK_SIZE + 1, j * KEYCZAR_AES_BLOCK_SIZE)

RECURSIVE CBCEncrypt(_, _, _)
\* encryptor.update(data) + encryptor.finalize() under modes.CBC(prev)
CBCEncrypt(k, prev, data) ==
    IF Len(data) = 0 THEN <<>>
    ELSE LET c == BlockEncrypt(k, XorBytes(Block(data, 1), prev))
         IN  c \o CBCEncrypt(k, c, PySliceFrom(data, KEYCZAR_AES_BLOCK_SIZE))

\* decryptor.update(data) + decryptor.finalize() under modes.CBC(iv)
CBCDecrypt(k, iv, data) ==
    [i \in 1..Len(data) |->
        LET j == ((i - 1) \div KEYCZAR_AES_BLOCK_SIZE) + 1
            o == ((i - 1) % KEYCZAR_AES_BLOCK_SIZE) + 1
            prev == IF j = 1 THEN iv ELSE Block(data, j - 1)
        IN  Xor(BlockDecrypt(k, Block(data, j))[o], prev[o])]

\* -------------------------------------------------------------------- state

VARIABLES
    pc,          \* position of the call in progress, "idle" between calls
    op,          \* the operation called
    key,         \* <<>> or <<k>>: the AESKey the caller holds
    stored,      \* <<>> or <<e>>: the envelope the caller stored, with the
                 \*   plaintext and key it was made from
    request,     \* argument of a key construction call
    plaintext,   \* argument of encrypt / pkcs5_pad
    hexin,       \* argument of decrypt (hex text)
    tamper,      \* how hexin was derived from the stored envelope
    data,        \* encrypt: padded plaintext; unpad: its argument
    iv_bytes,    \* encrypt: the IV drawn
    msg_bytes,   \* encrypt: header + IV + ciphertext
    ciphertext,  \* decrypt: the hex-decoded envelope
    decrypted,   \* decrypt: output of the AES-CBC decryption
    steps,       \* the steps the call in progress has performed, in order
    result,      \* outcome of the call
    enf,         \* the RuleEnforcer and the enforce() call in progress
    db           \* the RuleEnforcement records written, in order

vars == <<pc, op, key, stored, request, plaintext, hexin, tamper, data,
          iv_bytes, msg_bytes, ciphertext, decrypted, steps, result, enf, db>>

cryptoVars == <<pc, op, key, stored, request, plaintext, hexin, tamper, data,
                iv_bytes, msg_bytes, ciphertext, decrypted, steps, result>>

enfVars == <<enf, db>>

keyVars == <<key, stored>>

callVars == <<request, plaintext, hexin, tamper, data, iv_bytes, msg_bytes,
              ciphertext, decrypted>>

NoTamper == [kind |-> "none", pos |-> 0, bit |-> 0]

NoContent == [shape |-> "none", aesKeyString |-> <<>>, hmacKeyString |-> <<>>,
              hmacSize |-> 0, mode |-> "", size |-> 0]

NoRequest == [call |-> "none", key_size |-> 0, seed |-> 0, content |-> NoContent]

\* os.urandom(n): one of a small family of byte strings
urandom(n, seed) == [i \in 1..n |-> (seed * 53 + i * 29 + 11) % 256]

\* plaintexts of length n; the first family ends in a byte that looks like padding
PlainBytes(n, seed) == [i \in 1..n |-> (n - i + 1 + 7 * seed) % 256]

\* RuleEnforcementDB(trigger_instance_id, rule): the optional fields are
\* <<>> while unset
RuleEnforcementDB(trigger_instance_id, rule) ==
    [trigger_instance_id |-> trigger_instance_id, rule |-> rule,
     execution_id |-> <<>>, failure_reason |-> <<>>]

NoException == [class |-> "", message |-> ""]

NoOutcome == [kind |-> "none", execution |-> <<>>, exc |-> NoException]

\* no RuleEnforcer has been constructed
NoEnforcer ==
    [pc |-> "none", trigger_instance |-> "", rule |-> "",
     enforcement_db |-> RuleEnforcementDB("", ""),
     execution_db |-> <<>>, pending |-> <<>>, do_outcome |-> NoOutcome,
     attempts |-> <<>>, steps |-> <<>>, audit |-> "", ret |-> NoResult]

Init ==
    /\ enf = NoEnforcer
    /\ db = <<>>
    /\ pc = "idle"
    /\ op = "none"
    /\ key = <<>>
    /\ stored = <<>>
    /\ request = NoRequest
    /\ plaintext = <<>>
    /\ hexin = <<>>
    /\ tamper = NoTamper
    /\ data = <<>>
    /\ iv_bytes = <<>>
    /\ msg_bytes = <<>>
    /\ ciphertext = <<>>
    /\ decrypted = <<>>
    /\ steps = <<>>
    /\ result = NoResult

\* the caller takes the outcome; the call's locals are gone
Finish ==
    /\ pc = "done"
    /\ pc' = "idle"
    /\ op' = "none"
    /\ request' = NoRequest
    /\ plaintext' = <<>>
    /\ hexin' = <<>>
    /\ tamper' = NoTamper
    /\ data' = <<>>
    /\ iv_bytes' = <<>>
    /\ msg_bytes' = <<>>
    /\ ciphertext' = <<>>
    /\ decrypted' = <<>>
    /\ steps' = <<>>
    /\ result' = NoResult
    /\ UNCHANGED keyVars
    /\ UNCHANGED enfVars

\* ---------------------------------------------------------------- key model

upperMode(m) ==
    CASE m = "cbc" -> "CBC"
      [] m = "ecb" -> "ECB"
      [] m = "ctr" -> "CTR"
      [] OTHER -> m

\* AESKey.__init__: the fields as given, the mode upper-cased, both key
\* strings Base64-decoded; nothing is validated
AESKey_init(aes_key_string, hmac_key_string, hmac_key_size, mode, size) ==
    LET h == Base64WSDecode(hmac_key_string)
        a == Base64WSDecode(aes_key_string)
    IN  IF h.status = "raise" THEN [status |-> "raise", exc |-> h.exc, key |-> <<>>]
        ELSE IF a.status = "raise" THEN [status |-> "raise", exc |-> a.exc, key |-> <<>>]
        ELSE [status |-> "return", exc |-> "",
              key |-> <<[aes_key_string |-> aes_key_string,
                         hmac_key_string |-> hmac_key_string,
                         hmac_key_size |-> hmac_key_size,
                         mode |-> upperMode(mode),
                         size |-> size,
                         hmac_key_bytes |-> h.val,
                         aes_key_bytes |-> a.val]>>]

\* AESKey.generate: key_size / 8 (integer division) random bytes for each key
generate(key_size, seed) ==
    LET aes_key_bytes == urandom(key_size \div 8, 2 * seed)
        hmac_key_bytes == urandom(key_size \div 8, 2 * seed + 1)
    IN  AESKey_init(Base64WSEncode(aes_key_bytes), Base64WSEncode(hmac_key_bytes),
                    key_size, "CBC", key_size)

\* AESKey.generate(key_size) called by the holder of the key
Generate(sizes) ==
    /\ pc = "idle"
    /\ \E key_size \in sizes, seed \in 0..(NumKeySeeds - 1) :
          LET r == generate(key_size, seed)
          IN  /\ request' = [call |-> "generate", key_size |-> key_size,
                              seed |-> seed, content |-> NoContent]
              /\ result' = [status |-> r.status, exc |-> r.exc, val |-> <<>>]
              /\ key' = IF r.status = "return" THEN r.key ELSE key
    /\ pc' = "done"
    /\ op' = "generate"
    /\ steps' = <<"generate">>
    /\ UNCHANGED enfVars
    /\ UNCHANGED <<stored, plaintext, hexin, tamper, data, iv_bytes, msg_bytes,
                   ciphertext, decrypted>>

\* ------------------------------------------------------------------ encrypt

\* ord('0'): the header is the text '00000'
ORD_ZERO == 48

header_zeroBytes == Repeat(0, KEYCZAR_HEADER_SIZE)

header == Repeat(ORD_ZERO, KEYCZAR_HEADER_SIZE)

\* plaintexts encrypt and pkcs5_pad are called with
Plaintexts ==
    {PlainBytes(n, seed) : n \in PlainLens, seed \in 0..(NumPlainSeeds - 1)}

\* cryptography_symmetric_encrypt, up to the padding of the plaintext
EncryptCall ==
    /\ pc = "idle"
    /\ op' = "encrypt"
    /\ \E P \in Plaintexts :
          /\ plaintext' = P
          /\ IF key = <<>>
             THEN /\ result' = Raise("AssertionError")
                  /\ pc' = "done"
                  /\ data' = <<>>
                  /\ steps' = <<>>
             ELSE /\ result' = NoResult
                  /\ pc' = "enc_cipher"
                  /\ data' = pkcs5_pad(P)
                  /\ steps' = <<"pad">>
    /\ UNCHANGED enfVars
    /\ UNCHANGED <<key, stored, request, hexin, tamper, iv_bytes, msg_bytes,
                   ciphertext, decrypted>>

\* the IV is drawn and the AES-CBC cipher built
EncryptCipher ==
    /\ pc = "enc_cipher"
    /\ \E seed \in 0..(NumIVSeeds - 1) :
          iv_bytes' = urandom(KEYCZAR_AES_BLOCK_SIZE, 100 + seed)
    /\ IF AESKeyValid(key[1].aes_key_bytes)
       THEN /\ pc' = "enc_update"
            /\ result' = NoResult
            /\ steps' = Append(steps, "iv")
       ELSE /\ pc' = "done"
            /\ result' = Raise("ValueError")
            /\ steps' = Append(steps, "iv")
    /\ UNCHANGED enfVars
    /\ UNCHANGED <<op, key, stored, request, plaintext, hexin, tamper, data,
                   msg_bytes, ciphertext, decrypted>>

\* the padded plaintext is encrypted and the message assembled
EncryptUpdate ==
    /\ pc = "enc_update"
    /\ IF (Len(data) % KEYCZAR_AES_BLOCK_SIZE) # 0
       THEN /\ pc' = "done"
            /\ result' = Raise("ValueError")
            /\ msg_bytes' = <<>>
       ELSE /\ pc' = "enc_sign"
            /\ result' = NoResult
            /\ msg_bytes' = header \o iv_bytes
                               \o CBCEncrypt(key[1].aes_key_bytes, iv_bytes, data)
    /\ steps' = Append(steps, "aes_encrypt")
    /\ UNCHANGED enfVars
    /\ UNCHANGED <<op, key, stored, request, plaintext, hexin, tamper, data,
                   iv_bytes, ciphertext, decrypted>>

\* the message is signed and the envelope returned as upper-case hex text,
\* which the caller stores
EncryptSign ==
    /\ pc = "enc_sign"
    /\ LET sig_bytes == HMAC_SHA1(key[1].hmac_key_bytes, msg_bytes)
           hex == upper(hexlify(msg_bytes \o sig_bytes))
       IN  /\ result' = Return(hex)
           /\ stored' = <<[hex |-> hex, plain |-> plaintext, key |-> key[1]]>>
    /\ pc' = "done"
    /\ steps' = steps \o <<"hmac_sign", "hexlify">>
    /\ UNCHANGED enfVars
    /\ UNCHANGED <<op, key, request, plaintext, hexin, tamper, data, iv_bytes,
                   msg_bytes, ciphertext, decrypted>>

\* ------------------------------------------------------------------ decrypt

\* one bit of byte pos (1-based) flipped
FlipBit(bytes, pos, bit) ==
    [bytes EXCEPT ![pos] = Xor(bytes[pos], Pow2(bit))]

\* the hex texts decrypt is called with, derived from the stored envelope
ApplyTamper(hex, t) ==
    LET bytes == unhexlify(hex).val
    IN  CASE t.kind = "none" -> hex
          [] t.kind = "lower" -> hexlify(bytes)
          [] t.kind = "odd" -> SubSeq(hex, 1, Len(hex) - 1)
          [] t.kind = "nonhex" -> <<"g">> \o SubSeq(hex, 2, Len(hex))
          [] t.kind = "trunc" -> upper(hexlify(SubSeq(bytes, 1, t.pos)))
          [] t.kind = "flip" -> upper(hexlify(FlipBit(bytes, t.pos, t.bit)))

Tampers(e) ==
    LET n == Len(e.hex) \div 2
    IN  {[kind |-> k, pos |-> 0, bit |-> 0] : k \in {"none", "lower", "odd", "nonhex"}}
        \cup (IF Len(e.plain) <= MaxTamperPlain
              THEN {[kind |-> "flip", pos |-> p, bit |-> b] : p \in 1..n, b \in 0..7}
                   \cup {[kind |-> "trunc", pos |-> p, bit |-> 0] : p \in 0..(n - 1)}
              ELSE {})

\* cryptography_symmetric_decrypt, up to the hex decoding of its argument
DecryptCall ==
    /\ pc = "idle"
    /\ stored # <<>>
    /\ op' = "decrypt"
    /\ \E t \in Tampers(stored[1]) :
          /\ t.kind \in {"none", "lower"} \/ (key # <<>> /\ stored[1].key = key[1])
          /\ tamper' = t
          /\ hexin' = ApplyTamper(stored[1].hex, t)
          /\ IF key = <<>>
             THEN /\ result' = Raise("AssertionError")
                  /\ pc' = "done"
                  /\ ciphertext' = <<>>
                  /\ steps' = <<>>
             ELSE LET u == unhexlify(hexin')
                  IN  /\ result' = IF u.status = "raise" THEN u ELSE NoResult
                      /\ pc' = IF u.status = "raise" THEN "done" ELSE "dec_length"
                      /\ ciphertext' = u.val
                      /\ steps' = <<"unhexlify">>
    /\ UNCHANGED enfVars
    /\ UNCHANGED <<key, stored, request, plaintext, data, iv_bytes, msg_bytes,
                   decrypted>>

\* the locals of cryptography_symmetric_decrypt
data_bytes == PySliceFrom(ciphertext, KEYCZAR_HEADER_SIZE)

dec_iv_bytes == PySliceTo(data_bytes, KEYCZAR_AES_BLOCK_SIZE)

ciphertext_bytes == PySlice(data_bytes, KEYCZAR_AES_BLOCK_SIZE, 0 - KEYCZAR_HLEN)

signature_bytes == PySliceFrom(data_bytes, 0 - KEYCZAR_HLEN)

\* what the signature is computed over: ciphertext[:-KEYCZAR_HLEN]
signed_bytes == PySliceTo(ciphertext, 0 - KEYCZAR_HLEN)

TooShort_offByHeader == Len(ciphertext) < KEYCZAR_AES_BLOCK_SIZE + KEYCZAR_HLEN

\* the envelope holds less than an IV and a signature after its header
TooShort == Len(data_bytes) < KEYCZAR_AES_BLOCK_SIZE + KEYCZAR_HLEN

\* the header is removed and the length of the rest checked
DecryptLengthCheck ==
    /\ pc = "dec_length"
    /\ IF TooShort
       THEN /\ result' = Raise("Exception: Invalid ciphertext (too short)")
            /\ pc' = "done"
       ELSE /\ result' = NoResult
            /\ pc' = "dec_verify"
    /\ steps' = Append(steps, "length_check")
    /\ UNCHANGED enfVars
    /\ UNCHANGED <<op, key, stored, request, plaintext, hexin, tamper, data,
                   iv_bytes, msg_bytes, ciphertext, decrypted>>

SignatureValid_prefixOnly ==
    PySliceTo(HMAC_SHA1(key[1].hmac_key_bytes, signed_bytes), KEYCZAR_AES_BLOCK_SIZE)
        = PySliceTo(signature_bytes, KEYCZAR_AES_BLOCK_SIZE)

\* h.verify(signature_bytes)
SignatureValid ==
    HMAC_SHA1(key[1].hmac_key_bytes, signed_bytes) = signature_bytes

DecryptVerify_fallThrough ==
    /\ pc = "dec_verify"
    /\ result' = NoResult
    /\ pc' = "dec_aes"
    /\ steps' = Append(steps, "hmac_verify")
    /\ UNCHANGED enfVars
    /\ UNCHANGED <<op, key, stored, request, plaintext, hexin, tamper, data,
                   iv_bytes, msg_bytes, ciphertext, decrypted>>

\* the HMAC signature is verified
DecryptVerify ==
    /\ pc = "dec_verify"
    /\ IF SignatureValid
       THEN /\ result' = NoResult
            /\ pc' = "dec_aes"
       ELSE /\ result' = Raise("InvalidSignature")
            /\ pc' = "done"
    /\ steps' = Append(steps, "hmac_verify")
    /\ UNCHANGED enfVars
    /\ UNCHANGED <<op, key, stored, request, plaintext, hexin, tamper, data,
                   iv_bytes, msg_bytes, ciphertext, decrypted>>

\* the cipher is built and the ciphertext decrypted
DecryptAES ==
    /\ pc = "dec_aes"
    /\ IF ~AESKeyValid(key[1].aes_key_bytes)
          \/ (Len(ciphertext_bytes) % KEYCZAR_AES_BLOCK_SIZE) # 0
       THEN /\ result' = Raise("ValueError")
            /\ pc' = "done"
            /\ decrypted' = <<>>
       ELSE /\ result' = NoResult
            /\ pc' = "dec_unpad"
            /\ decrypted' = CBCDecrypt(key[1].aes_key_bytes, dec_iv_bytes,
                                       ciphertext_bytes)
    /\ steps' = Append(steps, "aes_decrypt")
    /\ UNCHANGED enfVars
    /\ UNCHANGED <<op, key, stored, request, plaintext, hexin, tamper, data,
                   iv_bytes, msg_bytes, ciphertext>>

\* the padding is removed and the plaintext returned
DecryptUnpad ==
    /\ pc = "dec_unpad"
    /\ result' = pkcs5_unpad(decrypted)
    /\ pc' = "done"
    /\ steps' = Append(steps, "unpad")
    /\ UNCHANGED enfVars
    /\ UNCHANGED <<op, key, stored, request, plaintext, hexin, tamper, data,
                   iv_bytes, msg_bytes, ciphertext, decrypted>>

\* key sizes the encrypting and decrypting caller generates its key with
CryptoSizes == {64, 128, 256}

GenerateCrypto == Generate(CryptoSizes)

Next ==
    \/ GenerateCrypto
    \/ EncryptCall
    \/ EncryptCipher
    \/ EncryptUpdate
    \/ EncryptSign
    \/ DecryptCall
    \/ DecryptLengthCheck
    \/ DecryptVerify
    \/ DecryptAES
    \/ DecryptUnpad
    \/ Finish

Spec == Init /\ [][Next]_vars

\* ------------------------------------------------ padding codec, called alone

RECURSIVE ByteStrings(_)
\* the byte strings of length n over SampleBytes
ByteStrings(n) ==
    IF n = 0 THEN {<<>>}
    ELSE {Append(d, b) : d \in ByteStrings(n - 1), b \in SampleBytes}

UnpadInputs == UNION {ByteStrings(n) : n \in 0..MaxDataLen}

\* pkcs5_pad(P)
PadCall ==
    /\ pc = "idle"
    /\ \E P \in Plaintexts :
          /\ plaintext' = P
          /\ result' = Return(pkcs5_pad(P))
    /\ pc' = "done"
    /\ op' = "pad"
    /\ steps' = <<"pad">>
    /\ UNCHANGED enfVars
    /\ UNCHANGED <<key, stored, request, hexin, tamper, data, iv_bytes,
                   msg_bytes, ciphertext, decrypted>>

\* pkcs5_unpad(d) for an arbitrary byte string
UnpadCall ==
    /\ pc = "idle"
    /\ \E d \in UnpadInputs :
          /\ data' = d
          /\ result' = pkcs5_unpad(d)
    /\ pc' = "done"
    /\ op' = "unpad"
    /\ steps' = <<"unpad">>
    /\ UNCHANGED enfVars
    /\ UNCHANGED <<key, stored, request, plaintext, hexin, tamper, iv_bytes,
                   msg_bytes, ciphertext, decrypted>>

\* pkcs5_unpad(pkcs5_pad(P)): the padded string just returned is unpadded
UnpadPadded ==
    /\ pc = "done"
    /\ op = "pad"
    /\ data' = result.val
    /\ result' = pkcs5_unpad(result.val)
    /\ pc' = "done"
    /\ op' = "unpad_padded"
    /\ steps' = Append(steps, "unpad")
    /\ UNCHANGED enfVars
    /\ UNCHANGED <<key, stored, request, plaintext, hexin, tamper, iv_bytes,
                   msg_bytes, ciphertext, decrypted>>

NextPad ==
    \/ PadCall
    \/ UnpadCall
    \/ UnpadPadded
    \/ Finish

SpecPad == Init /\ [][NextPad]_vars

\* ------------------------------------------------- key construction, alone

\* a Base64 key string as a key file may hold it
KeyText(t, form) ==
    CASE form = "plain" -> t
      [] form = "spaced" -> SubSeq(t, 1, 4) \o <<B64Space>>
                               \o SubSeq(t, 5, Len(t)) \o <<B64Newline>>
      [] form = "cut" -> SubSeq(t, 1, 4 * ((Len(t) - 1) \div 4) + 1)

\* key lengths (bytes) of the key files read
FileKeyLens == {16, 32}

FileSizes == {128, 256}

FileModes == {"CBC", "cbc", "ECB", "ctr"}

\* what read_crypto_key finds at key_path
KeyFiles ==
    {[shape |-> "ok",
      aesKeyString |-> KeyText(Base64WSEncode(urandom(n, 2 * seed)), form),
      hmacKeyString |-> Base64WSEncode(urandom(n, 2 * seed + 1)),
      hmacSize |-> n * 8, mode |-> m, size |-> sz] :
        n \in FileKeyLens, sz \in FileSizes, m \in FileModes,
        form \in {"plain", "spaced", "cut"}, seed \in 0..(NumKeySeeds - 1)}
    \cup {[NoContent EXCEPT !.shape = sh] : sh \in {"nofile", "malformed", "missing"}}

\* read_crypto_key: the file is read, parsed as JSON and handed to AESKey
read_crypto_key(content) ==
    CASE content.shape = "nofile" -> [status |-> "raise", exc |-> "IOError", key |-> <<>>]
      [] content.shape = "malformed" -> [status |-> "raise", exc |-> "ValueError", key |-> <<>>]
      [] content.shape = "missing" -> [status |-> "raise", exc |-> "KeyError", key |-> <<>>]
      [] OTHER -> AESKey_init(content.aesKeyString, content.hmacKeyString,
                              content.hmacSize, upperMode(content.mode), content.size)

\* read_crypto_key(key_path) called by the holder of the key
Load ==
    /\ pc = "idle"
    /\ \E content \in KeyFiles :
          LET r == read_crypto_key(content)
          IN  /\ request' = [call |-> "load", key_size |-> 0, seed |-> 0,
                             content |-> content]
              /\ result' = [status |-> r.status, exc |-> r.exc, val |-> <<>>]
              /\ key' = IF r.status = "return" THEN r.key ELSE key
    /\ pc' = "done"
    /\ op' = "load"
    /\ steps' = <<"load">>
    /\ UNCHANGED enfVars
    /\ UNCHANGED <<stored, plaintext, hexin, tamper, data, iv_bytes, msg_bytes,
                   ciphertext, decrypted>>

GenerateAny == Generate(GenSizes)

NextKeys ==
    \/ GenerateAny
    \/ Load
    \/ Finish

SpecKeys == Init /\ [][NextKeys]_vars

\* =================================================================== claims

Steps == {steps[i] : i \in 1..Len(steps)}

TooShortError == Raise("Exception: Invalid ciphertext (too short)")

\* the trailing 20 bytes of the decoded envelope differ from the HMAC-SHA1
\* of everything before them
SignatureMismatch ==
    LET n == Len(ciphertext)
    IN  HMAC_SHA1(key[1].hmac_key_bytes, SubSeq(ciphertext, 1, n - 20))
            # SubSeq(ciphertext, n - 19, n)

\* C1: in every decrypt call the HMAC-SHA1 check over decoded[0 : len-20]
\* comes before any AES-CBC decryption or unpadding step; on a mismatch the
\* call ends with InvalidSignature (the code's authentication error) right
\* after the check, nothing is decrypted or unpadded and nothing is returned.
C1_VerifyBeforeDecrypt ==
    op = "decrypt" =>
        /\ \A i \in 1..Len(steps) :
              steps[i] \in {"aes_decrypt", "unpad"}
                  => \E j \in 1..(i - 1) : steps[j] = "hmac_verify"
        /\ pc \in {"dec_aes", "dec_unpad"} => ~SignatureMismatch
        /\ result.status = "return" => ("hmac_verify" \in Steps /\ ~SignatureMismatch)
        /\ ("hmac_verify" \in Steps /\ SignatureMismatch)
              => /\ pc = "done"
                 /\ result = Raise("InvalidSignature")
                 /\ steps = <<"unhexlify", "length_check", "hmac_verify">>
                 /\ decrypted = <<>>

C1_Witness ==
    /\ op = "decrypt"
    /\ pc = "done"
    /\ "hmac_verify" \in Steps
    /\ SignatureMismatch
    /\ result = Raise("InvalidSignature")

\* C2: decrypting, with the key it was made with, the envelope encrypt
\* returned for a plaintext P of length 0, 1, 15, 16, 17, 31 or 100 (and 32)
\* returns exactly P, whatever IV encrypt drew; encrypt itself returns an
\* envelope for every key of 128 or 256 bits.
C2_RoundTrip ==
    /\ (op = "decrypt" /\ pc = "done" /\ tamper.kind = "none"
            /\ key # <<>> /\ stored[1].key = key[1])
          => result = Return(stored[1].plain)
    /\ (op = "encrypt" /\ pc = "done" /\ key # <<>> /\ key[1].size \in {128, 256})
          => (result.status = "return" /\ stored # <<>> /\ stored[1].plain = plaintext)

C2_Witness ==
    /\ op = "decrypt"
    /\ pc = "done"
    /\ tamper.kind = "none"
    /\ key # <<>> /\ stored[1].key = key[1]
    /\ Len(stored[1].plain) = 100
    /\ result = Return(stored[1].plain)

\* C3: a decrypt of an envelope of encrypt with one bit flipped, at any
\* position of header, IV, ciphertext or signature, ends with
\* InvalidSignature and never reaches decryption.
C3_TamperDetected ==
    (op = "decrypt" /\ tamper.kind = "flip")
        => /\ pc \in {"dec_length", "dec_verify", "done"}
           /\ pc = "done" => result = Raise("InvalidSignature")

\* a flipped header bit was rejected
C3_Witness ==
    /\ op = "decrypt"
    /\ tamper.kind = "flip"
    /\ tamper.pos <= 5
    /\ Len(stored[1].plain) = 16
    /\ pc = "done"
    /\ result = Raise("InvalidSignature")

\* C4: a decrypt whose hex text decodes to fewer than 5 + 16 + 20 bytes ends
\* with the too-short error right after the length check, before any
\* signature verification or decryption; 41 bytes or more pass the check.
C4_TruncationRejected ==
    (op = "decrypt" /\ "length_check" \in Steps)
        => /\ Len(ciphertext) < 5 + 16 + 20
                => /\ pc = "done"
                   /\ result = TooShortError
                   /\ steps = <<"unhexlify", "length_check">>
           /\ Len(ciphertext) >= 5 + 16 + 20
                => /\ result # TooShortError
                   /\ pc = "dec_verify" \/ "hmac_verify" \in Steps

C4_Witness ==
    /\ op = "decrypt"
    /\ tamper.kind = "trunc"
    /\ Len(ciphertext) = 40
    /\ pc = "done"
    /\ result = TooShortError

\* the hex-decoded envelope encrypt returned
Envelope == unhexlify(result.val).val

EncryptReturned == op = "encrypt" /\ pc = "done" /\ result.status = "return"

\* C5 as stated: the first 5 bytes of the hex-decoded output of every
\* encrypt call are zero bytes (0x00).
C5_Original ==
    EncryptReturned => SubSeq(Envelope, 1, 5) = <<0, 0, 0, 0, 0>>

\* C5 as amended: the first 5 bytes of the hex-decoded output of every
\* encrypt call are the character '0' (0x30) each; the signed message is
\* these 5 bytes followed by the IV and the ciphertext.
C5_HeaderIsAsciiZeros ==
    EncryptReturned =>
        LET n == Len(Envelope)
        IN  /\ SubSeq(Envelope, 1, 5) = <<48, 48, 48, 48, 48>>
            /\ SubSeq(Envelope, 6, 21) = iv_bytes
            /\ SubSeq(Envelope, 1, n - 20) = msg_bytes
            /\ SubSeq(Envelope, n - 19, n)
                  = HMAC_SHA1(key[1].hmac_key_bytes, SubSeq(Envelope, 1, n - 20))

C5_Witness ==
    /\ EncryptReturned
    /\ Len(plaintext) = 17
    /\ SubSeq(Envelope, 1, 5) = <<48, 48, 48, 48, 48>>

\* C6: the hex-decoded output of encrypt has length 5 + 16 + c + 20 where
\* c, the ciphertext length, is a multiple of 16, at least 16, and equal to
\* len(plaintext) rounded up to the next multiple of 16 (a full extra block
\* when len(plaintext) is a multiple of 16).
C6_EnvelopeLength ==
    EncryptReturned =>
        LET total == Len(Envelope)
            c == total - (5 + 16 + 20)
        IN  /\ Len(result.val) = 2 * total
            /\ c >= 16
            /\ (c % 16) = 0
            /\ c = 16 * ((Len(plaintext) \div 16) + 1)

C6_Witness ==
    /\ EncryptReturned
    /\ Len(plaintext) = 32
    /\ Len(Envelope) = 5 + 16 + 48 + 20

UnpadDone == op \in {"unpad", "unpad_padded"} /\ pc = "done"

\* C7 as stated: unpad(data) fails whenever data is empty or the value n of
\* its last byte is greater than len(data), and returns no byte string.
C7_Original ==
    (UnpadDone /\ (Len(data) = 0 \/ data[Len(data)] > Len(data)))
        => result.status = "raise"

\* C8 as stated: for non-empty data whose last byte n is 0 <= n <= len(data),
\* unpad(data) returns data without its final n bytes (unchanged for n = 0),
\* and unpad(pad(X)) = X.
C8_Original ==
    /\ (UnpadDone /\ Len(data) > 0 /\ data[Len(data)] <= Len(data))
          => result = Return(SubSeq(data, 1, Len(data) - data[Len(data)]))
    /\ (op = "unpad_padded" /\ pc = "done") => result = Return(plaintext)

\* C9 as stated: generate(keySizeBits) fails and returns no Key when
\* keySizeBits is not a multiple of 8 or is not 128 or 256; load fails when
\* the record's mode is not CBC.
C9_Original ==
    /\ (op = "generate" /\ pc = "done"
            /\ ((request.key_size % 8) # 0 \/ request.key_size \notin {128, 256}))
          => result.status = "raise"
    /\ (op = "load" /\ pc = "done" /\ request.content.shape = "ok"
            /\ upperMode(request.content.mode) # "CBC")
          => result.status = "raise"

\* C10 as stated: every Key that exists satisfies len(aesKeyBytes) * 8 = size;
\* generate(bits) yields an HMAC key of bits/8 bytes and mode CBC.
C10_Original ==
    /\ key # <<>> => Len(key[1].aes_key_bytes) * 8 = key[1].size
    /\ (op = "generate" /\ pc = "done" /\ result.status = "return")
          => /\ Len(key[1].hmac_key_bytes) * 8 = request.key_size
             /\ key[1].mode = "CBC"

\* ============================================================= RuleEnforcer

\* most RuleEnforcement records written before the model stops calling enforce
MaxStored == 2

TriggerIds == {"t1"}

RuleRefs == {"r1", "r2"}

ExecutionIds == {"e1"}

\* action_constants.LIVEACTION_STATUS_*
ExecStatuses == {"requested", "failed"}

EXEC_KICKED_OFF_STATES == {"scheduled", "requested"}

\* the classes `except Exception` catches; KeyboardInterrupt, SystemExit and
\* the like derive from BaseException only
IsException(class) == class \in {"Exception", "ValueError", "AttributeError"}

\* RuleEnforcer.__init__: get_transformer may reject the trigger payload
RuleEnforcerInit ==
    /\ enf.pc \in {"none", "ready"}
    /\ \E t \in TriggerIds, r \in RuleRefs, payload_ok \in BOOLEAN :
          enf' = IF payload_ok
                 THEN [NoEnforcer EXCEPT !.pc = "ready", !.trigger_instance = t,
                                         !.rule = r]
                 ELSE [NoEnforcer EXCEPT !.ret = Raise("ValueError")]
    /\ UNCHANGED db
    /\ UNCHANGED cryptoVars

\* enforce(), up to the try statement
EnforceCall ==
    /\ enf.pc = "ready"
    /\ Len(db) < MaxStored
    /\ enf' = [NoEnforcer EXCEPT
                  !.pc = "try",
                  !.trigger_instance = enf.trigger_instance,
                  !.rule = enf.rule,
                  !.enforcement_db = RuleEnforcementDB(enf.trigger_instance, enf.rule)]
    /\ UNCHANGED db
    /\ UNCHANGED cryptoVars

\* what _do_enforce meets: whether the rule's action exists, and what the
\* services it calls (trace update, action_service.request) do
DoEnforceEnvs ==
    {[action_exists |-> a, service |-> sv, id |-> i, status |-> st] :
        a \in BOOLEAN, sv \in {"execution", "none", "exception", "interrupt"},
        i \in ExecutionIds, st \in ExecStatuses}

\* _do_enforce / _invoke_action
do_enforce(env) ==
    IF ~env.action_exists
    THEN [kind |-> "raise", execution |-> <<>>,
          exc |-> [class |-> "ValueError", message |-> "Action doesn't exist"]]
    ELSE CASE env.service = "execution" ->
                 [kind |-> "return",
                  execution |-> <<[id |-> env.id, status |-> env.status]>>,
                  exc |-> NoException]
           [] env.service = "none" ->
                 [kind |-> "return", execution |-> <<>>, exc |-> NoException]
           [] env.service = "exception" ->
                 [kind |-> "raise", execution |-> <<>>,
                  exc |-> [class |-> "Exception", message |-> "request failed"]]
           [] env.service = "interrupt" ->
                 [kind |-> "raise", execution |-> <<>>,
                  exc |-> [class |-> "KeyboardInterrupt", message |-> ""]]

\* execution_db = self._do_enforce()
DoEnforce ==
    /\ enf.pc = "try"
    /\ \E env \in DoEnforceEnvs :
          LET out == do_enforce(env)
          IN  enf' = [enf EXCEPT
                         !.do_outcome = out,
                         !.steps = Append(@, "do_enforce"),
                         !.execution_db = IF out.kind = "return" THEN out.execution ELSE @,
                         !.pending = IF out.kind = "raise" THEN <<out.exc>> ELSE <<>>,
                         !.pc = IF out.kind = "return" THEN "assign"
                                ELSE IF IsException(out.exc.class) THEN "except"
                                ELSE "finally"]
    /\ UNCHANGED db
    /\ UNCHANGED cryptoVars

\* enforcement_db.execution_id = str(execution_db.id)
TryAssign ==
    /\ enf.pc = "assign"
    /\ enf' = IF enf.execution_db = <<>>
              THEN [enf EXCEPT
                       !.pending = <<[class |-> "AttributeError",
                                      message |-> "'NoneType' object has no attribute 'id'"]>>,
                       !.pc = "except"]
              ELSE [enf EXCEPT
                       !.enforcement_db.execution_id = <<enf.execution_db[1].id>>,
                       !.pc = "finally"]
    /\ UNCHANGED db
    /\ UNCHANGED cryptoVars

\* except Exception as e: the failure reason is recorded, the exception dropped
ExceptClause ==
    /\ enf.pc = "except"
    /\ enf' = [enf EXCEPT
                  !.enforcement_db.failure_reason = <<enf.pending[1].message>>,
                  !.pending = <<>>,
                  !.steps = Append(@, "except"),
                  !.pc = "finally"]
    /\ UNCHANGED db
    /\ UNCHANGED cryptoVars

UpdateEnforcement_propagates ==
    /\ enf.pc = "finally"
    /\ \E ok \in BOOLEAN :
          /\ enf' = [enf EXCEPT
                        !.attempts = Append(@, [record |-> enf.enforcement_db, ok |-> ok]),
                        !.steps = Append(@, "persist"),
                        !.pc = IF enf.pending # <<>> \/ ~ok THEN "propagated" ELSE "audit",
                        !.ret = IF enf.pending # <<>> THEN Raise(enf.pending[1].class)
                                ELSE IF ~ok THEN Raise("Exception") ELSE @]
          /\ db' = IF ok THEN Append(db, enf.enforcement_db) ELSE db
    /\ UNCHANGED cryptoVars

\* finally: self._update_enforcement(enforcement_db); whatever add_or_update
\* raises is logged and dropped; an exception the try statement did not
\* catch goes on to the caller
UpdateEnforcement ==
    /\ enf.pc = "finally"
    /\ \E ok \in BOOLEAN :
          /\ enf' = [enf EXCEPT
                        !.attempts = Append(@, [record |-> enf.enforcement_db, ok |-> ok]),
                        !.steps = Append(@, "persist"),
                        !.pc = IF enf.pending # <<>> THEN "propagated" ELSE "audit",
                        !.ret = IF enf.pending # <<>> THEN Raise(enf.pending[1].class)
                                ELSE @]
          /\ db' = IF ok THEN Append(db, enf.enforcement_db) ELSE db
    /\ UNCHANGED cryptoVars

\* the audit log line, then return execution_db
EnforceReturn ==
    /\ enf.pc = "audit"
    /\ enf' = [enf EXCEPT
                  !.audit = IF enf.execution_db = <<>>
                               \/ enf.execution_db[1].status \notin EXEC_KICKED_OFF_STATES
                            THEN "Rule enforcement failed"
                            ELSE "Rule enforced",
                  !.ret = Return(enf.execution_db),
                  !.steps = Append(@, "return"),
                  !.pc = "returned"]
    /\ UNCHANGED db
    /\ UNCHANGED cryptoVars

\* the caller takes the outcome of enforce(); the enforcer stays
EnforceFinish ==
    /\ enf.pc \in {"returned", "propagated"}
    /\ enf' = [NoEnforcer EXCEPT !.pc = "ready",
                                 !.trigger_instance = enf.trigger_instance,
                                 !.rule = enf.rule]
    /\ UNCHANGED db
    /\ UNCHANGED cryptoVars

NextEnforce ==
    \/ RuleEnforcerInit
    \/ EnforceCall
    \/ DoEnforce
    \/ TryAssign
    \/ ExceptClause
    \/ UpdateEnforcement
    \/ EnforceReturn
    \/ EnforceFinish

SpecEnforce == Init /\ [][NextEnforce]_vars

EnforceEnded == enf.pc \in {"returned", "propagated"}

\* position of the first occurrence of step x in the call's steps, 0 if none
StepIndex(x) ==
    IF \E i \in 1..Len(enf.steps) : enf.steps[i] = x
    THEN CHOOSE i \in 1..Len(enf.steps) :
            enf.steps[i] = x /\ \A j \in 1..(i - 1) : enf.steps[j] # x
    ELSE 0

\* at most one attempt to persist, made after _do_enforce returned or raised
OnePersistAfterDoEnforce ==
    /\ Len(enf.attempts) <= 1
    /\ Len(enf.attempts) = Cardinality({i \in 1..Len(enf.steps) : enf.steps[i] = "persist"})
    /\ Len(enf.attempts) = 1 => (0 < StepIndex("do_enforce")
                                    /\ StepIndex("do_enforce") < StepIndex("persist"))
    /\ EnforceEnded => Len(enf.attempts) = 1

\* _do_enforce returned an execution: the record carries its id, enforce
\* returns it
ExecutionCase ==
    (EnforceEnded /\ enf.do_outcome.kind = "return" /\ enf.do_outcome.execution # <<>>)
        => /\ enf.attempts[1].record.execution_id = <<enf.do_outcome.execution[1].id>>
           /\ enf.attempts[1].record.failure_reason = <<>>
           /\ enf.ret = Return(enf.do_outcome.execution)

\* the record carries failure_reason and no execution_id, enforce returns None
FailureRecorded ==
    /\ enf.attempts[1].record.failure_reason # <<>>
    /\ enf.attempts[1].record.execution_id = <<>>
    /\ enf.pc = "returned"
    /\ enf.ret = Return(<<>>)

\* C11 as stated: every enforce() call makes exactly one attempt to persist
\* the record, after _do_enforce returned or raised; an execution returned
\* is recorded and returned; whenever _do_enforce raises, the record carries
\* failure_reason and no execution_id, nothing is propagated and None is
\* returned.
C11_Original ==
    /\ OnePersistAfterDoEnforce
    /\ ExecutionCase
    /\ (EnforceEnded /\ enf.do_outcome.kind = "raise") => FailureRecorded

\* C11 as amended: as stated, but the failure case is for exceptions derived
\* from Exception; any other exception _do_enforce raises (KeyboardInterrupt,
\* SystemExit) is propagated after the one attempt to persist, the record
\* carrying neither failure_reason nor execution_id.  A failed attempt to
\* persist changes neither what enforce returns nor whether it returns.
C11_EnforcePersistsOnce ==
    /\ OnePersistAfterDoEnforce
    /\ ExecutionCase
    /\ (EnforceEnded /\ enf.do_outcome.kind = "raise"
            /\ IsException(enf.do_outcome.exc.class)) => FailureRecorded
    /\ (EnforceEnded /\ enf.do_outcome.kind = "raise"
            /\ ~IsException(enf.do_outcome.exc.class))
          => /\ enf.pc = "propagated"
             /\ enf.ret = Raise(enf.do_outcome.exc.class)
             /\ enf.attempts[1].record.failure_reason = <<>>
             /\ enf.attempts[1].record.execution_id = <<>>
    /\ (enf.pc = "propagated") => (enf.do_outcome.kind = "raise"
                                      /\ ~IsException(enf.do_outcome.exc.class))
    /\ \A i \in 1..Len(db) : db[i].execution_id = <<>> \/ db[i].failure_reason = <<>>

\* _do_enforce raised, the attempt to persist failed, enforce returned None
C11_Witness ==
    /\ enf.pc = "returned"
    /\ enf.do_outcome.kind = "raise"
    /\ Len(enf.attempts) = 1
    /\ ~enf.attempts[1].ok
    /\ enf.attempts[1].record.failure_reason = <<"request failed">>
    /\ enf.ret = Return(<<>>)

=============================================================================
